---- MODULE Spec2Model ----
(***************************************************************************)
(* Greeting service of python-skeleton: the Greeting entity, the in-memory *)
(* repository, the GreetingService use cases, the request DTO and the      *)
(* GreetingController.                                                     *)
(*                                                                         *)
(* Text is a sequence of one-character strings, a point in time is a       *)
(* number of seconds after BaseTime, and a Greeting object is a record     *)
(* whose id field is the object's identity (Greeting defines no __eq__):  *)
(* positive for a Greeting constructed by a caller of the repository,      *)
(* negative for one constructed by the service.                            *)
(***************************************************************************)
EXTENDS Integers, Sequences, FiniteSets, TLC

VARIABLES
    greetings,      \* InMemoryGreetingRepository.greetings: recipient -> list of Greeting
    all_greetings,  \* InMemoryGreetingRepository.all_greetings: list of Greeting
    nextId,         \* identity of the next Greeting a caller of the repository constructs
    created,        \* history: identities of the Greetings the service constructed
    last            \* the last call made: its arguments and its outcome

vars == <<greetings, all_greetings, nextId, created, last>>

----------------------------------------------------------------------------
(* Bounds of the model *)

MaxStored == 2      \* save calls awaited on the repository
MaxCreated == 4     \* successful create_greeting calls
MaxTime == 1        \* wall-clock readings are 0..MaxTime
MaxSeed == 1        \* greetings saved into the repository the use cases then run on

(* Program constants *)

MaxRecipientLength == 100
MinLength == 1
StatusOk == 200
StatusBadRequest == 400
StatusServerError == 500

None == -1          \* Python's None in a `datetime | None` position

----------------------------------------------------------------------------
(* Text *)

Whitespace == {" ", "\t", "\n"}

RECURSIVE LStrip(_)
LStrip(s) ==
    IF s = <<>> THEN <<>>
    ELSE IF Head(s) \in Whitespace THEN LStrip(Tail(s)) ELSE s

RECURSIVE RStrip(_)
RStrip(s) ==
    IF s = <<>> THEN <<>>
    ELSE IF s[Len(s)] \in Whitespace THEN RStrip(SubSeq(s, 1, Len(s) - 1)) ELSE s

\* str.strip()
Strip(s) == RStrip(LStrip(s))

StartsWith(s, p) == Len(p) <= Len(s) /\ SubSeq(s, 1, Len(p)) = p

Contains(s, p) ==
    \E i \in 0..(Len(s) - Len(p)) : SubSeq(s, i + 1, i + Len(p)) = p

Digits == <<"0", "1", "2", "3", "4", "5", "6", "7", "8", "9">>

Pad2(n) == <<Digits[(n \div 10) + 1], Digits[(n % 10) + 1]>>

\* The instant the clock readings count from: 2025-05-16 12:00:00.
BaseDateHour == <<"2", "0", "2", "5", "-", "0", "5", "-", "1", "6", " ", "1", "2">>

\* datetime.strftime("%Y-%m-%d %H:%M:%S") for readings within the hour after BaseTime
StrfTime(t) ==
    BaseDateHour \o <<":">> \o Pad2((t \div 60) % 60) \o <<":">> \o Pad2(t % 60)

----------------------------------------------------------------------------
(* Inputs *)

Names == {<<"A">>, <<"B">>}

LongRecipient == [i \in 1..(MaxRecipientLength + 1) |-> "x"]

\* Recipients of requests: empty, whitespace only, valid, over 100 characters
Recipients == {<<>>, <<" ">>, <<"A">>, LongRecipient}

Messages == {<<>>, <<"H", "i">>}

Times == 0..MaxTime

Limits == (-1)..(MaxStored + 1)

----------------------------------------------------------------------------
(* Greeting entity *)

\* Greeting.__init__: a datetime is always truthy, so `timestamp or now()`
\* takes the clock exactly when no timestamp is passed.
Greeting(id, message, recipient, timestamp, now) ==
    [id |-> id, message |-> message, recipient |-> recipient,
     timestamp |-> IF timestamp = None THEN now ELSE timestamp]

\* Variant: the ", " between message and recipient is left out
format_greeting_NoSeparator(g) == g.message \o g.recipient \o <<"!">>

format_greeting(g) == g.message \o <<",", " ">> \o g.recipient \o <<"!">>

TheTimeIs == <<" ", "T", "h", "e", " ", "t", "i", "m", "e", " ", "i", "s", " ">>

format_with_timestamp(g) ==
    format_greeting(g) \o TheTimeIs \o StrfTime(g.timestamp) \o <<".">>

----------------------------------------------------------------------------
(* Calling an `async def` *)

\* Calling an `async def` runs none of its body: it builds a coroutine object
\* that would produce `result` (value or new repository) once awaited.
AsyncCall(result) == [kind |-> "coroutine", result |-> result]

\* `await coroutine` runs the body.
Await(c) == c.result

\* iter(v) succeeds on a list (kind "list") and raises TypeError on a coroutine
\* object.
Iterable(v) == v.kind = "list"

\* An expression statement whose value is a coroutine drops it: the body never
\* runs and the repository stays as it is.
Discard(c, repo) == repo

----------------------------------------------------------------------------
(* InMemoryGreetingRepository *)

Repo == [greetings |-> greetings, all_greetings |-> all_greetings]

\* self.greetings[recipient] = [] when the key is missing
WithBucket(buckets, recipient) ==
    IF recipient \in DOMAIN buckets THEN buckets
    ELSE [k \in (DOMAIN buckets) \cup {recipient} |->
            IF k \in DOMAIN buckets THEN buckets[k] ELSE <<>>]

\* Variant: the greeting is appended to all_greetings only
save_AllOnly(repo, greeting) ==
    [greetings |-> WithBucket(repo.greetings, greeting.recipient),
     all_greetings |-> Append(repo.all_greetings, greeting)]

\* body of `async def save`
save(repo, greeting) ==
    [greetings |-> [WithBucket(repo.greetings, greeting.recipient)
                        EXCEPT ![greeting.recipient] = Append(@, greeting)],
     all_greetings |-> Append(repo.all_greetings, greeting)]

\* Variant: a known recipient is given every greeting of the repository
find_by_recipient_Unfiltered(repo, recipient) ==
    IF recipient \in DOMAIN repo.greetings THEN repo.all_greetings ELSE <<>>

\* body of `async def find_by_recipient`: dict.get(recipient, [])
find_by_recipient(repo, recipient) ==
    IF recipient \in DOMAIN repo.greetings THEN repo.greetings[recipient] ELSE <<>>

\* sorted(..., key=timestamp, reverse=True) is stable: greetings of equal
\* timestamp keep the order they have in the input.
InsertByTimestampDesc(s, g) ==
    LET k == Cardinality({i \in 1..Len(s) : s[i].timestamp >= g.timestamp})
    IN  SubSeq(s, 1, k) \o <<g>> \o SubSeq(s, k + 1, Len(s))

RECURSIVE SortedByTimestampDesc(_)
SortedByTimestampDesc(s) ==
    IF s = <<>> THEN <<>>
    ELSE InsertByTimestampDesc(SortedByTimestampDesc(SubSeq(s, 1, Len(s) - 1)), s[Len(s)])

\* s[:limit], a negative limit counting from the end
SliceTo(s, limit) ==
    IF limit >= 0 THEN SubSeq(s, 1, IF limit < Len(s) THEN limit ELSE Len(s))
    ELSE SubSeq(s, 1, IF Len(s) + limit > 0 THEN Len(s) + limit ELSE 0)

\* body of `async def get_latest`
get_latest(repo, limit) == SliceTo(SortedByTimestampDesc(repo.all_greetings), limit)

----------------------------------------------------------------------------
(* DTOs *)

\* Field(min_length=1, max_length=100), then the field validator
RecipientFieldValid(v) ==
    /\ Len(v) >= MinLength
    /\ Len(v) <= MaxRecipientLength
    /\ Strip(v) # <<>>

\* Field(min_length=1)
MessageFieldValid(v) == Len(v) >= MinLength

\* GreetingRequest(...): pydantic raises ValidationError when a field is rejected
GreetingRequest(recipient, message, include_timestamp) ==
    [exc |-> IF RecipientFieldValid(recipient) /\ MessageFieldValid(message)
             THEN "none" ELSE "ValidationError",
     request |-> [recipient |-> recipient, message |-> message,
                  include_timestamp |-> include_timestamp]]

GreetingResponse(greeting, recipient, timestamp) ==
    [greeting |-> greeting, recipient |-> recipient, timestamp |-> timestamp]

\* Exception classes
GreetingErrors == {"GreetingError", "InvalidRecipientError", "EmptyMessageError"}
ValueErrors == {"ValueError", "ValidationError"}

----------------------------------------------------------------------------
(* GreetingService *)

Raised(exc, repo) == [exc |-> exc, repo |-> repo, ret |-> <<>>, objs |-> <<>>]

Returned(repo, ret, objs) == [exc |-> "none", repo |-> repo, ret |-> ret, objs |-> objs]

\* Variant: the entity is built and saved (awaited) before the request is checked
create_greeting_SaveFirst(repo, request, now, id) ==
    LET greeting == Greeting(id, request.message, request.recipient, None, now)
        after == Await(AsyncCall(save(repo, greeting)))
        formatted_message ==
            IF request.include_timestamp THEN format_with_timestamp(greeting)
            ELSE format_greeting(greeting)
    IN  IF request.recipient = <<>> THEN Raised("InvalidRecipientError", after)
        ELSE IF request.message = <<>> THEN Raised("EmptyMessageError", after)
        ELSE Returned(after,
                      <<GreetingResponse(formatted_message, greeting.recipient,
                          IF request.include_timestamp THEN greeting.timestamp ELSE None)>>,
                      <<greeting>>)

create_greeting(repo, request, now, id) ==
    IF request.recipient = <<>> THEN Raised("InvalidRecipientError", repo)
    ELSE IF request.message = <<>> THEN Raised("EmptyMessageError", repo)
    ELSE
        LET greeting == Greeting(id, request.message, request.recipient, None, now)
            \* self.greeting_repository.save(greeting), not awaited
            after == Discard(AsyncCall(save(repo, greeting)), repo)
            formatted_message ==
                IF request.include_timestamp THEN format_with_timestamp(greeting)
                ELSE format_greeting(greeting)
        IN  Returned(after,
                     <<GreetingResponse(formatted_message, greeting.recipient,
                         IF request.include_timestamp THEN greeting.timestamp ELSE None)>>,
                     <<greeting>>)

get_latest_greetings(repo, limit) ==
    LET \* self.greeting_repository.get_latest(limit), not awaited
        found == AsyncCall(get_latest(repo, limit))
    IN  IF Iterable(found)
        THEN Returned(repo,
                 [i \in 1..Len(found.result) |->
                     GreetingResponse(format_greeting(found.result[i]),
                         found.result[i].recipient, found.result[i].timestamp)],
                 found.result)
        ELSE Raised("TypeError", repo)

----------------------------------------------------------------------------
(* GreetingController *)

Http(r, status, cause) ==
    [exc |-> IF status = StatusOk THEN "none" ELSE "HTTPException",
     cause |-> cause, status |-> status, repo |-> r.repo, ret |-> r.ret, objs |-> r.objs]

\* An exception no handler of the controller catches leaves it as it is; the
\* framework answers such a request with a server error.
Unhandled(r) ==
    [exc |-> r.exc, cause |-> "none", status |-> StatusServerError,
     repo |-> r.repo, ret |-> r.ret, objs |-> r.objs]

\* Variant: the controller has no `except ValueError` handler
Controller_create_greeting_NoValueError(repo, recipient, message, include_timestamp, now, id) ==
    LET dto == GreetingRequest(recipient, message, include_timestamp)
        r == IF dto.exc = "none" THEN create_greeting(repo, dto.request, now, id)
             ELSE Raised(dto.exc, repo)
    IN  IF r.exc = "none" THEN Http(r, StatusOk, "none")
        ELSE IF r.exc \in GreetingErrors THEN Http(r, StatusBadRequest, r.exc)
        ELSE Unhandled(r)

Controller_create_greeting(repo, recipient, message, include_timestamp, now, id) ==
    LET dto == GreetingRequest(recipient, message, include_timestamp)
        r == IF dto.exc = "none" THEN create_greeting(repo, dto.request, now, id)
             ELSE Raised(dto.exc, repo)
    IN  IF r.exc = "none" THEN Http(r, StatusOk, "none")
        ELSE IF r.exc \in GreetingErrors THEN Http(r, StatusBadRequest, r.exc)
        ELSE IF r.exc \in ValueErrors THEN Http(r, StatusBadRequest, r.exc)
        ELSE Unhandled(r)

Controller_get_latest_greetings(repo, limit) ==
    LET r == get_latest_greetings(repo, limit)
    IN  IF r.exc = "none" THEN Http(r, StatusOk, "none")
        ELSE Http(r, StatusServerError, r.exc)

----------------------------------------------------------------------------------------------------------------------------------------
(* State machine *)

\* What a call looked like from outside: its arguments, the exception that left
\* it (and the one it was raised from), the HTTP status of a controller call,
\* the value returned (responses in ret, Greeting objects in objs) and, in
\* alias, the key of the bucket whose own list object was returned.
Call(op, recipient, message, include_timestamp, limit, exc, cause, status, ret, objs, alias) ==
    [op |-> op, recipient |-> recipient, message |-> message,
     include_timestamp |-> include_timestamp, limit |-> limit,
     exc |-> exc, cause |-> cause, status |-> status,
     ret |-> ret, objs |-> objs, alias |-> alias]

Init ==
    /\ greetings = <<>>
    /\ all_greetings = <<>>
    /\ nextId = 1
    /\ created = <<>>
    /\ last = Call("init", <<>>, <<>>, FALSE, 0, "none", "none", 0, <<>>, <<>>, <<>>)

SetRepo(repo) ==
    /\ greetings' = repo.greetings
    /\ all_greetings' = repo.all_greetings

\* The Greeting objects the repository holds
Stored == {all_greetings[i] : i \in 1..Len(all_greetings)}

\* `await repository.save(g)` with a Greeting the caller has just constructed
RepoSaveNew ==
    /\ Len(all_greetings) < MaxStored
    /\ \E message \in Messages \ {<<>>}, recipient \in Names,
          timestamp \in Times \cup {None}, now \in Times :
          LET g == Greeting(nextId, message, recipient, timestamp, now)
          IN  /\ SetRepo(Await(AsyncCall(save(Repo, g))))
              /\ last' = Call("save", g.recipient, g.message, FALSE, 0,
                              "none", "none", 0, <<>>, <<g>>, <<>>)
    /\ nextId' = nextId + 1
    /\ UNCHANGED created

\* `await repository.save(g)` with a Greeting that was saved before
RepoSaveAgain ==
    /\ Len(all_greetings) < MaxStored
    /\ \E g \in Stored :
          /\ SetRepo(Await(AsyncCall(save(Repo, g))))
          /\ last' = Call("save", g.recipient, g.message, FALSE, 0,
                          "none", "none", 0, <<>>, <<g>>, <<>>)
    /\ UNCHANGED <<nextId, created>>

\* `await repository.find_by_recipient(recipient)`
RepoFindByRecipient ==
    /\ \E recipient \in Names \cup Recipients :
          last' = Call("find_by_recipient", recipient, <<>>, FALSE, 0,
                       "none", "none", 0, <<>>,
                       Await(AsyncCall(find_by_recipient(Repo, recipient))),
                       IF recipient \in DOMAIN greetings THEN <<recipient>> ELSE <<>>)
    /\ UNCHANGED <<greetings, all_greetings, nextId, created>>

\* `await repository.get_latest(limit)`
RepoGetLatest ==
    /\ \E limit \in Limits :
          last' = Call("get_latest", <<>>, <<>>, FALSE, limit,
                       "none", "none", 0, <<>>,
                       Await(AsyncCall(get_latest(Repo, limit))), <<>>)
    /\ UNCHANGED <<greetings, all_greetings, nextId, created>>

\* The clock is read only when a Greeting is constructed, that is when the
\* service's checks let the request through.
ClockReadings(request) ==
    IF request.recipient = <<>> \/ request.message = <<>> THEN {0} ELSE Times

\* The bookkeeping of a create_greeting call with outcome r
AfterCreate(r) ==
    /\ r.objs # <<>> => Len(created) < MaxCreated
    /\ SetRepo(r.repo)
    /\ created' = IF r.objs = <<>> THEN created ELSE Append(created, r.objs[1].id)
    /\ UNCHANGED nextId

\* GreetingService.create_greeting(request) called with any request object: the
\* service's own checks exist for requests that did not go through validation
\* (model_construct, or a field assigned after construction).
ServiceCreateGreeting ==
    \E recipient \in Recipients, message \in Messages, include_timestamp \in BOOLEAN :
        LET request == [recipient |-> recipient, message |-> message,
                        include_timestamp |-> include_timestamp]
        IN  \E now \in ClockReadings(request) :
                LET r == create_greeting(Repo, request, now, -(Len(created) + 1))
                IN  /\ AfterCreate(r)
                    /\ last' = Call("create_greeting", recipient, message,
                                    include_timestamp, 0, r.exc, "none", 0,
                                    r.ret, r.objs, <<>>)

\* GreetingService.get_latest_greetings(limit)
ServiceGetLatestGreetings ==
    /\ \E limit \in Limits :
          LET r == get_latest_greetings(Repo, limit)
          IN  /\ SetRepo(r.repo)
              /\ last' = Call("get_latest_greetings", <<>>, <<>>, FALSE, limit,
                              r.exc, "none", 0, r.ret, r.objs, <<>>)
    /\ UNCHANGED <<nextId, created>>

\* GreetingController.create_greeting(recipient, message, include_timestamp)
ControllerCreateGreeting ==
    \E recipient \in Recipients, message \in Messages, include_timestamp \in BOOLEAN :
        \E now \in ClockReadings(GreetingRequest(recipient, message, include_timestamp).request) :
            LET r == Controller_create_greeting(Repo, recipient, message, include_timestamp,
                                                now, -(Len(created) + 1))
            IN  /\ AfterCreate(r)
                /\ last' = Call("Controller.create_greeting", recipient, message,
                                include_timestamp, 0, r.exc, r.cause, r.status,
                                r.ret, r.objs, <<>>)

\* GreetingController.get_latest_greetings(limit)
ControllerGetLatestGreetings ==
    /\ \E limit \in Limits :
          LET r == Controller_get_latest_greetings(Repo, limit)
          IN  /\ SetRepo(r.repo)
              /\ last' = Call("Controller.get_latest_greetings", <<>>, <<>>, FALSE, limit,
                              r.exc, r.cause, r.status, r.ret, r.objs, <<>>)
    /\ UNCHANGED <<nextId, created>>

----------------------------------------------------------------------------
(* A caller using the references it holds *)

\* g.timestamp = v / g.recipient = v on the object with identity id, seen
\* through every list that holds the object
SetAttribute(s, id, field, v) ==
    [i \in 1..Len(s) |->
        IF s[i].id # id THEN s[i]
        ELSE IF field = "timestamp" THEN [s[i] EXCEPT !.timestamp = v]
        ELSE [s[i] EXCEPT !.recipient = v]]

\* The caller of find_by_recipient or get_latest changes the list it was given:
\* lst.pop() or lst.clear(). The list find_by_recipient returned for a known
\* recipient is the bucket itself; every other returned list is a new object.
CallerMutatesReturnedList ==
    /\ last.op \in {"find_by_recipient", "get_latest"}
    /\ last.exc = "none"
    /\ \E method \in {"pop", "clear"} :
          LET lst == IF method = "clear" \/ last.objs = <<>> THEN <<>>
                     ELSE SubSeq(last.objs, 1, Len(last.objs) - 1)
          IN  /\ greetings' = IF last.alias = <<>> THEN greetings
                              ELSE [greetings EXCEPT ![last.alias[1]] = lst]
              /\ last' = Call("list." \o method, last.recipient, <<>>, FALSE, last.limit,
                              "none", "none", 0, <<>>, lst, last.alias)
    /\ UNCHANGED <<all_greetings, nextId, created>>

\* The caller of save assigns to an attribute of the Greeting it passed
CallerMutatesGreeting ==
    /\ \E g \in Stored :
          \E field \in {"timestamp", "recipient"} :
              \E v \in (IF field = "timestamp" THEN Times ELSE Names) :
                  /\ all_greetings' = SetAttribute(all_greetings, g.id, field, v)
                  /\ greetings' = [k \in DOMAIN greetings |->
                                      SetAttribute(greetings[k], g.id, field, v)]
                  /\ last' = Call("setattr." \o field, <<>>, <<>>, FALSE, 0,
                                  "none", "none", 0, <<>>, <<>>, <<>>)
    /\ UNCHANGED <<nextId, created>>

----------------------------------------------------------------------------
(* Specifications *)

Next ==
    \/ RepoSaveNew
    \/ RepoSaveAgain
    \/ RepoFindByRecipient
    \/ RepoGetLatest
    \/ ServiceCreateGreeting
    \/ ServiceGetLatestGreetings
    \/ ControllerCreateGreeting
    \/ ControllerGetLatestGreetings

\* Everything: the repository driven by callers that await it, the use cases
\* and the controller
Spec == Init /\ [][Next]_vars

\* The repository alone, driven by a caller that awaits it
NextStore ==
    \/ RepoSaveNew
    \/ RepoSaveAgain
    \/ RepoFindByRecipient
    \/ RepoGetLatest

SpecStore == Init /\ [][NextStore]_vars

\* The use cases and the controller, on a repository holding up to MaxSeed
\* greetings saved by a caller that awaits it
NextService ==
    \/ (Len(all_greetings) < MaxSeed /\ RepoSaveNew)
    \/ ServiceCreateGreeting
    \/ ServiceGetLatestGreetings
    \/ ControllerCreateGreeting
    \/ ControllerGetLatestGreetings

SpecService == Init /\ [][NextService]_vars

\* The repository and a caller that writes through the references it holds
NextOwner ==
    \/ RepoSaveNew
    \/ RepoSaveAgain
    \/ RepoFindByRecipient
    \/ RepoGetLatest
    \/ CallerMutatesReturnedList
    \/ CallerMutatesGreeting

SpecOwner == Init /\ [][NextOwner]_vars

----------------------------------------------------------------------------
(* Claims *)

CreateOps == {"create_greeting", "Controller.create_greeting"}

LatestOps == {"get_latest_greetings", "Controller.get_latest_greetings"}

\* Number of times the object with identity id occurs in the list s
Occurrences(s, id) == Cardinality({i \in 1..Len(s) : s[i].id = id})

\* The greetings of the list s whose recipient is r, in the order of s
ForRecipient(s, r) ==
    LET Test(g) == g.recipient = r
    IN  SelectSeq(s, Test)

MutationOps == {"list.pop", "list.clear", "setattr.timestamp", "setattr.recipient"}

Ids(s) == {s[i].id : i \in 1..Len(s)}

Minimum(a, b) == IF a < b THEN a ELSE b

\* The text "{message}, {recipient}!"
GreetingText(message, recipient) == message \o <<",", " ">> \o recipient \o <<"!">>

\* The text "The time is "
TheTimeIsText == <<"T", "h", "e", " ", "t", "i", "m", "e", " ", "i", "s", " ">>

\* C1: every successful create_greeting persists its Greeting: each Greeting the
\* service built is in the repository, and when the repository was filled by the
\* service alone, get_latest_greetings(limit) with limit >= n succeeds and
\* returns n responses, one per created greeting.
C1_CreatePersists ==
    /\ \A i \in 1..Len(created) : created[i] \in Ids(all_greetings)
    /\ (/\ last.op = "get_latest_greetings"
        /\ nextId = 1
        /\ last.limit >= Len(created))
       => /\ last.exc = "none"
          /\ Len(last.ret) = Len(created)
          /\ \A i \in 1..Len(created) : created[i] \in Ids(last.objs)

\* C2: for every positive limit get_latest_greetings(limit) returns
\* min(limit, number stored) responses, at most limit, by timestamp descending,
\* each with a timestamp.
C2_LatestBoundedSorted ==
    (last.op = "get_latest_greetings" /\ last.limit > 0)
    => /\ last.exc = "none"
       /\ Len(last.ret) <= last.limit
       /\ Len(last.ret) = Minimum(last.limit, Len(all_greetings))
       /\ \A i \in 1..Len(last.ret) : last.ret[i].timestamp # None
       /\ \A i \in 1..(Len(last.ret) - 1) :
              last.ret[i].timestamp >= last.ret[i + 1].timestamp

\* C3: a request with a valid recipient and message succeeds; the response
\* carries the request's recipient; without include_timestamp the text is
\* "{message}, {recipient}!" and the timestamp is null; with it the text starts
\* with "{message}, {recipient}!", contains "The time is ", and the timestamp is
\* the created Greeting's.
C3_CreateResponse ==
    (/\ last.op \in CreateOps
     /\ RecipientFieldValid(last.recipient)
     /\ MessageFieldValid(last.message))
    => /\ last.exc = "none"
       /\ Len(last.ret) = 1
       /\ Len(last.objs) = 1
       /\ last.ret[1].recipient = last.recipient
       /\ ~last.include_timestamp =>
             /\ last.ret[1].greeting = GreetingText(last.message, last.recipient)
             /\ last.ret[1].timestamp = None
       /\ last.include_timestamp =>
             /\ StartsWith(last.ret[1].greeting, GreetingText(last.message, last.recipient))
             /\ Contains(last.ret[1].greeting, TheTimeIsText)
             /\ last.ret[1].timestamp # None
             /\ last.ret[1].timestamp = last.objs[1].timestamp

\* C3 witness: a creation with include_timestamp answered with a timestamp
C3_Witness ==
    /\ last.op = "Controller.create_greeting"
    /\ last.include_timestamp
    /\ last.status = StatusOk
    /\ last.ret # <<>>
    /\ last.ret[1].timestamp \in Times

\* C4: the service rejects a recipient that is empty after trimming with
\* InvalidRecipientError and an empty message with EmptyMessageError, so that it
\* accepts no recipient the request DTO counts as empty.
C4_EmptyRejected ==
    last.op = "create_greeting"
    => /\ Strip(last.recipient) = <<>> => last.exc = "InvalidRecipientError"
       /\ (Strip(last.recipient) # <<>> /\ last.message = <<>>)
             => last.exc = "EmptyMessageError"

\* C5: after 4 creations (and nothing else saved) get_latest_greetings(2)
\* returns 2 results, made from the last two Greetings created.
C5_LatestTwoOfFour ==
    (/\ last.op = "get_latest_greetings"
     /\ last.limit = 2
     /\ nextId = 1
     /\ Len(created) = 4)
    => /\ last.exc = "none"
       /\ Len(last.ret) = 2
       /\ Ids(last.objs) = {created[3], created[4]}

\* C6: the controller answers a creation request that DTO validation rejects
\* (empty, whitespace-only or over-100-character recipient, empty message) or
\* that ends in a GreetingError with 400, and a failure of the service's
\* get_latest_greetings with 500.
C6_BoundaryStatus ==
    /\ (/\ last.op = "Controller.create_greeting"
        /\ \/ Len(last.recipient) = 0
           \/ Strip(last.recipient) = <<>>
           \/ Len(last.recipient) > MaxRecipientLength
           \/ Len(last.message) = 0
           \/ last.cause \in GreetingErrors)
       => /\ last.status = StatusBadRequest
          /\ last.exc = "HTTPException"
          /\ last.ret = <<>>
    /\ (/\ last.op = "Controller.get_latest_greetings"
        /\ get_latest_greetings(Repo, last.limit).exc # "none")
       => /\ last.status = StatusServerError
          /\ last.exc = "HTTPException"

\* C6 witness: an over-long recipient was answered with 400
C6_Witness ==
    /\ last.op = "Controller.create_greeting"
    /\ last.recipient = LongRecipient
    /\ last.status = StatusBadRequest

\* C7 as claimed: every stored Greeting occurs exactly once in all_greetings and
\* exactly once in the bucket of its recipient, and all_greetings holds what
\* the buckets hold.
C7_ExactlyOnce ==
    /\ \A g \in Stored :
          /\ Occurrences(all_greetings, g.id) = 1
          /\ g.recipient \in DOMAIN greetings
          /\ Occurrences(greetings[g.recipient], g.id) = 1
    /\ \A k \in DOMAIN greetings : greetings[k] = ForRecipient(all_greetings, k)

\* C7 amended: each save appends one occurrence of its Greeting to
\* all_greetings and one to the bucket of its recipient, so a Greeting occurs
\* as often in its bucket as in all_greetings (once when saved once); no call
\* removes or reorders anything; every bucket is the part of all_greetings with
\* its recipient; the size never decreases.
C7_StoreInvariant ==
    [][/\ Len(all_greetings) <= Len(all_greetings')
       /\ SubSeq(all_greetings', 1, Len(all_greetings)) = all_greetings
       /\ \A k \in DOMAIN greetings :
             /\ k \in DOMAIN greetings'
             /\ SubSeq(greetings'[k], 1, Len(greetings[k])) = greetings[k]
       /\ last'.op = "save" =>
             /\ all_greetings' = Append(all_greetings, last'.objs[1])
             /\ Occurrences(all_greetings', last'.objs[1].id)
                  = Occurrences(all_greetings, last'.objs[1].id) + 1
             /\ Occurrences(greetings'[last'.recipient], last'.objs[1].id)
                  = Occurrences(all_greetings', last'.objs[1].id)
       /\ last'.op # "save" => all_greetings' = all_greetings
       /\ \A k \in DOMAIN greetings' : greetings'[k] = ForRecipient(all_greetings', k)
       /\ \A g \in {all_greetings'[i] : i \in 1..Len(all_greetings')} :
             /\ g.recipient \in DOMAIN greetings'
             /\ Occurrences(greetings'[g.recipient], g.id)
                  = Occurrences(all_greetings', g.id)
      ]_vars

\* C7 witness: two greetings were saved for one recipient and one of them twice
C7_Witness ==
    /\ last.op = "save"
    /\ Len(all_greetings) >= 2
    /\ \E g \in Stored : Occurrences(all_greetings, g.id) = 2

\* C8: find_by_recipient returns the greetings saved for the recipient in the
\* order saved, an empty list and no error for a recipient without greetings,
\* and buckets exist only for recipients that had a greeting saved.
C8_FindByRecipient ==
    /\ last.op = "find_by_recipient"
       => /\ last.exc = "none"
          /\ last.objs = ForRecipient(all_greetings, last.recipient)
          /\ (\A g \in Stored : g.recipient # last.recipient) => last.objs = <<>>
    /\ DOMAIN greetings = {g.recipient : g \in Stored}

\* C8 witness: a lookup returned the two greetings saved for its recipient
C8_Witness ==
    /\ last.op = "find_by_recipient"
    /\ Len(last.objs) = 2
    /\ Cardinality(Ids(last.objs)) = 2

\* C9: nothing a caller does to a list it was returned, or to a Greeting it
\* saved, changes what find_by_recipient and get_latest return afterwards.
C9_StoreOwnsContents ==
    [][last'.op \in MutationOps
       => /\ \A r \in Names : find_by_recipient(Repo', r) = find_by_recipient(Repo, r)
          /\ \A limit \in Limits : get_latest(Repo', limit) = get_latest(Repo, limit)
      ]_vars

\* C10: a create_greeting that fails, and every get_latest_greetings, leaves
\* all_greetings and every bucket as they were.
C10_FailureLeavesStore ==
    [][(\/ (last'.op \in CreateOps /\ last'.exc # "none")
        \/ last'.op \in LatestOps)
       => (greetings' = greetings /\ all_greetings' = all_greetings)
      ]_vars

\* C10 witness: a creation was rejected while the repository held a greeting
C10_Witness ==
    /\ last.op = "create_greeting"
    /\ last.exc = "InvalidRecipientError"
    /\ all_greetings # <<>>

====
